---- MODULE Spec2Model ----
(***************************************************************************)
(* Flask-Viewsets: the 'where' filter language of the model viewsets.      *)
(*                                                                         *)
(* A filter string is a sequence of one-character strings.  A compile call *)
(* (WhereParser.parse) runs Lark's LALR parser with the WhereTransformer   *)
(* embedded: the contextual lexer produces one token at a time, the parser *)
(* reduces as far as the lookahead allows (calling the rule callbacks) and *)
(* shifts the token (calling the terminal callback).                       *)
(***************************************************************************)
EXTENDS Integers, Sequences, FiniteSets, TLC

(***************************************************************************)
(* Bounds of the model.                                                    *)
(***************************************************************************)
\* largest integer written in a generated literal
MaxInt == 3
\* longest generated array literal
MaxArrayLen == 3
\* most comparisons joined by "&" and "|" in a generated filter string
MaxClauses == 3
\* number of compile calls in flight at once
MaxCalls == 2
\* views made of one ViewSet class
MaxViews == 3
\* the largest id of a stored record
MaxId == 1

(***************************************************************************)
(* Characters.                                                             *)
(***************************************************************************)
Quote == "\""
Digits == {"0", "1", "2", "3", "4", "5", "6", "7", "8", "9"}
Letters == {"_", "a", "b", "d", "e", "f", "g", "h", "i", "l", "m", "n",
            "o", "r", "s", "t", "u", "y"}
\* the characters in ASCII order, for Python's string ordering
CharOrder == <<"\"", "&", "0", "1", "2", "3", "4", "5", "6", "7", "8", "9", "_",
               "a", "b", "d", "e", "f", "g", "h", "i", "l", "m", "n", "o",
               "r", "s", "t", "u", "y">>
Ord(c) == CHOOSE i \in 1..Len(CharOrder) : CharOrder[i] = c

(***************************************************************************)
(* Python values a literal decodes to (type Value of the transformer).     *)
(* A float is mant / 10^scale with no trailing zero digit in the fraction. *)
(***************************************************************************)
NoneV == [t |-> "none"]
BoolV(b) == [t |-> "bool", b |-> b]
IntV(n) == [t |-> "int", n |-> n]
FloatV(m, s) == [t |-> "float", mant |-> m, scale |-> s]
StrV(cs) == [t |-> "str", s |-> cs]
ListV(items) == [t |-> "list", items |-> items]
\* a dict keeps its keys in first-insertion order, one entry per key
DictV(entries) == [t |-> "dict", entries |-> entries]

(***************************************************************************)
(* Results of a compile call that raises.                                  *)
(***************************************************************************)
Raise(kind) == [t |-> "raise", kind |-> kind]
IsRaise(x) == x.t = "raise"

(***************************************************************************)
(* The host's predicate representation (SQLAlchemy column elements).       *)
(***************************************************************************)
Column(name) == [t |-> "column", name |-> name]
IsColumn(x) == x.t = "column"
Binary(op, left, right) == [t |-> "binary", op |-> op, left |-> left, right |-> right]
ClauseList(op, clauses) == [t |-> "clauselist", op |-> op, clauses |-> clauses]
Unary(op, element) == [t |-> "unary", op |-> op, element |-> element]

\* Python's str < str
RECURSIVE StrLess(_, _)
StrLess(a, b) ==
    IF b = <<>> THEN FALSE
    ELSE IF a = <<>> THEN TRUE
    ELSE IF a[1] # b[1] THEN Ord(a[1]) < Ord(b[1])
    ELSE StrLess(Tail(a), Tail(b))

\* left == right, left != right, ... : a column builds a comparison; any
\* other attribute of the model class is compared as the Python object it is
HostCompare(op, left, right) ==
    IF IsColumn(left) THEN Binary(op, left, right)
    ELSE IF op = "eq" THEN BoolV(left = right)
    ELSE IF op = "ne" THEN BoolV(left # right)
    ELSE IF left.t = "str" /\ right.t = "str" THEN
        CASE op = "lt" -> BoolV(StrLess(left.s, right.s))
          [] op = "le" -> BoolV(~StrLess(right.s, left.s))
          [] op = "gt" -> BoolV(StrLess(right.s, left.s))
          [] op = "ge" -> BoolV(~StrLess(left.s, right.s))
    ELSE Raise("TypeError")

\* left.is_(None), left.contains(v), left.in_(vs): methods of a column only
HostMethod(op, left, right) ==
    IF IsColumn(left) THEN Binary(op, left, right)
    ELSE Raise("AttributeError")

\* sqlalchemy.not_: the negation of IS is IS NOT (and back)
HostNot(clause) ==
    IF clause.t = "binary" /\ clause.op = "is"
        THEN Binary("is_not", clause.left, clause.right)
    ELSE IF clause.t = "binary" /\ clause.op = "is_not"
        THEN Binary("is", clause.left, clause.right)
    ELSE Unary("not", clause)

HostAnd(clauses) == ClauseList("and", clauses)
HostOr(clauses) == ClauseList("or", clauses)

(***************************************************************************)
(* The model class handed to WhereParser: its attributes by name.  The     *)
(* mapped columns are id and array; __tablename__ is a plain class         *)
(* attribute holding the table's name.                                     *)
(***************************************************************************)
id == <<"i", "d">>
array_ == <<"a", "r", "r", "a", "y">>
tablename == <<"_", "_", "t", "a", "b", "l", "e", "n", "a", "m", "e", "_", "_">>
ghost == <<"g", "h", "o", "s", "t">>
test == <<"t", "e", "s", "t">>
Fields == {id, array_}
TestModel ==
    [a \in Fields \cup {tablename} |->
        IF a = tablename THEN StrV(test) ELSE Column(a)]

(***************************************************************************)
(* WhereTransformer: the callbacks, one per terminal and per rule.         *)
(***************************************************************************)
\* getattr(self.model, name)
NAME(model_, name) ==
    IF name \in DOMAIN model_ THEN model_[name] ELSE Raise("AttributeError")

NULL(tok) == NoneV
TRUE_(tok) == BoolV(TRUE)
FALSE_(tok) == BoolV(FALSE)

DigitVal(c) == Ord(c) - Ord("0")
RECURSIVE ParseInt(_, _)
ParseInt(cs, acc) ==
    IF cs = <<>> THEN acc ELSE ParseInt(Tail(cs), 10 * acc + DigitVal(cs[1]))
AllDigits(cs) == \A i \in 1..Len(cs) : cs[i] \in Digits
RECURSIVE NormFloat(_, _)
NormFloat(m, s) ==
    IF s > 0 /\ m % 10 = 0 THEN NormFloat(m \div 10, s - 1) ELSE FloatV(m, s)
\* float(number) of a literal digits "." digits
ParseFloat(cs) ==
    LET dot == CHOOSE i \in 1..Len(cs) : cs[i] = "."
        whole == SubSeq(cs, 1, dot - 1)
        frac == SubSeq(cs, dot + 1, Len(cs))
    IN NormFloat(ParseInt(whole \o frac, 0), Len(frac))
\* float(number) whatever the literal
NUMBERAlwaysFloat(number) ==
    IF AllDigits(number) THEN FloatV(ParseInt(number, 0), 0) ELSE ParseFloat(number)
\* try int(number), except ValueError: float(number)
NUMBER(number) ==
    IF AllDigits(number) THEN IntV(ParseInt(number, 0)) ELSE ParseFloat(number)

\* string[1:-1]
STRING_(string) == StrV(SubSeq(string, 2, Len(string) - 1))

\* the distinct values only: list(dict.fromkeys(args))
RECURSIVE Distinct(_, _)
Distinct(xs, acc) ==
    IF xs = <<>> THEN acc
    ELSE Distinct(Tail(xs),
                  IF \E i \in 1..Len(acc) : acc[i] = xs[1] THEN acc
                  ELSE Append(acc, xs[1]))
arrayDistinct(args) == ListV(Distinct(args, <<>>))
\* [*args]
array(args) == ListV(args)
PAIR(args) == args
\* dict(args): a later pair with a key already present replaces its value
RECURSIVE DictOf(_, _)
DictOf(pairs, acc) ==
    IF pairs = <<>> THEN acc
    ELSE LET p == pairs[1]
             at == {i \in 1..Len(acc) : acc[i][1] = p[1]}
         IN DictOf(Tail(pairs),
                   IF at = {} THEN Append(acc, p)
                   ELSE [i \in 1..Len(acc) |-> IF i \in at THEN p ELSE acc[i]])
object(args) == DictV(DictOf(args, <<>>))

\* and_(*clauses) in the place of or_(*clauses)
or_AsAnd(clauses) == HostAnd(clauses)
or_(clauses) == HostOr(clauses)
and_(clauses) == HostAnd(clauses)
\* the clause itself, not negated
not_Dropped(args) == args[1]
not_(args) == HostNot(args[1])

\* args[0] == args[1] whatever args[1] is
eqWithoutNullCase(args) == HostCompare("eq", args[1], args[2])
eq(args) ==
    IF args[2] = NoneV THEN HostMethod("is", args[1], NoneV)
    ELSE HostCompare("eq", args[1], args[2])
\* != given the null case that = has
neWithNullCase(args) ==
    IF args[2] = NoneV THEN HostMethod("is_not", args[1], NoneV)
    ELSE HostCompare("ne", args[1], args[2])
ne(args) == HostCompare("ne", args[1], args[2])
gt(args) == HostCompare("gt", args[1], args[2])
ge(args) == HostCompare("ge", args[1], args[2])
lt(args) == HostCompare("lt", args[1], args[2])
le(args) == HostCompare("le", args[1], args[2])
contains(args) == HostMethod("contains", args[1], args[2])
in_(args) == HostMethod("in", args[1], args[2])

(***************************************************************************)
(* The grammar's terminals and Lark's contextual lexer.                    *)
(***************************************************************************)
\* the terminals written as literal strings in the grammar
Literal ==
    [LPAR |-> <<"(">>, RPAR |-> <<")">>, LSQB |-> <<"[">>, RSQB |-> <<"]">>,
     LBRACE |-> <<"{">>, RBRACE |-> <<"}">>, COMMA |-> <<",">>,
     COLON |-> <<":">>, EQUAL |-> <<"=">>, NOTEQUAL |-> <<"!", "=">>,
     MORETHAN |-> <<">">>, MOREEQUAL |-> <<">", "=">>, LESSTHAN |-> <<"<">>,
     LESSEQUAL |-> <<"<", "=">>, HASH |-> <<"#">>, AT |-> <<"@">>,
     AMPERSAND |-> <<"&">>, VBAR |-> <<"|">>, BANG |-> <<"!">>,
     NULL |-> <<"n", "u", "l", "l">>, TRUE |-> <<"t", "r", "u", "e">>,
     FALSE |-> <<"f", "a", "l", "s", "e">>]

\* the order in which a lexer tries its terminals: widest pattern first
TerminalOrder ==
    <<"NAME", "NUMBER", "STRING", "FALSE", "NULL", "TRUE", "NOTEQUAL",
      "MOREEQUAL", "LESSEQUAL", "LPAR", "RPAR", "LSQB", "RSQB", "LBRACE",
      "RBRACE", "COMMA", "COLON", "EQUAL", "MORETHAN", "LESSTHAN", "HASH",
      "AT", "AMPERSAND", "VBAR", "BANG">>

\* the first index from i on whose character is not in Class
RECURSIVE RunEnd(_, _, _)
RunEnd(s, i, Class) ==
    IF i <= Len(s) /\ s[i] \in Class THEN RunEnd(s, i + 1, Class) ELSE i

\* the index after the closing quote of the string opened before i, 0 if none
RECURSIVE CloseQuote(_, _)
CloseQuote(s, i) ==
    IF i > Len(s) THEN 0
    ELSE IF s[i] = Quote THEN i + 1
    ELSE CloseQuote(s, i + 1)

\* the index after the match of terminal term at position i of s, 0 if none
Match(term, s, i) ==
    IF i > Len(s) THEN 0
    ELSE IF term = "NAME" THEN
        IF s[i] \in Letters THEN RunEnd(s, i + 1, Letters \cup Digits) ELSE 0
    ELSE IF term = "NUMBER" THEN
        IF s[i] \in Digits THEN
            LET e == RunEnd(s, i, Digits)
            IN IF e + 1 <= Len(s) /\ s[e] = "." /\ s[e + 1] \in Digits
               THEN RunEnd(s, e + 1, Digits) ELSE e
        ELSE 0
    ELSE IF term = "STRING" THEN
        IF s[i] = Quote THEN CloseQuote(s, i + 1) ELSE 0
    ELSE LET lit == Literal[term]
             e == i + Len(lit)
         IN IF e - 1 <= Len(s) /\ SubSeq(s, i, e - 1) = lit THEN e ELSE 0

EndToken == [type |-> "$END", text |-> <<>>, end |-> 0]
NoToken == [type |-> "$NONE", text |-> <<>>, end |-> 0]

\* the next token of s from position i, among the terminals the parser
\* accepts in its current state
Lex(s, i, accepts) ==
    IF i > Len(s) THEN EndToken
    ELSE LET hits == {k \in 1..Len(TerminalOrder) :
                        /\ TerminalOrder[k] \in accepts
                        /\ Match(TerminalOrder[k], s, i) > 0}
         IN IF hits = {} THEN NoToken
            ELSE LET k == CHOOSE h \in hits : \A g \in hits : h <= g
                     e == Match(TerminalOrder[k], s, i)
                 IN [type |-> TerminalOrder[k], text |-> SubSeq(s, i, e - 1),
                     end |-> e]

(***************************************************************************)
(* The grammar (start symbol where), loosest binding first:                *)
(*   or_  : and_ | or_ "|" and_          and_ : not_ | and_ "&" not_       *)
(*   not_ : atom | "!" atom              atom : comparison | "(" or_ ")"   *)
(*   comparison : NAME OP value | NAME "@" array                           *)
(*   value : NULL | TRUE | FALSE | NUMBER | STRING | array | object        *)
(*   array : "[" [value ("," value)*] "]"                                  *)
(*   object : "{" [pair ("," pair)*] "}"      pair : STRING ":" value      *)
(* A rule with a single child is inlined: its callback is not called.      *)
(*                                                                         *)
(* The parser's stack holds the shifted symbols with their values.         *)
(***************************************************************************)
Mark(k) == [k |-> k]
Expr(v) == [k |-> "expr", v |-> v]
Name(v) == [k |-> "NAME", v |-> v]
Op(rule) == [k |-> "op", rule |-> rule]
Value(v) == [k |-> "value", v |-> v]
Key(v) == [k |-> "key", v |-> v]

\* the rule a comparison operator's terminal belongs to
RuleOf ==
    [EQUAL |-> "eq", NOTEQUAL |-> "ne", MORETHAN |-> "gt", MOREEQUAL |-> "ge",
     LESSTHAN |-> "lt", LESSEQUAL |-> "le", HASH |-> "contains", AT |-> "in_"]
CompareOps == DOMAIN RuleOf
ValueStart == {"NULL", "TRUE", "FALSE", "NUMBER", "STRING", "LSQB", "LBRACE"}

\* the kind of the d-th stack entry from the top
Kind(stack, d) == IF d > Len(stack) THEN "EMPTY" ELSE stack[Len(stack) + 1 - d].k

\* the index of the innermost bracket still open on the stack
NearestOpen(stack, kinds) ==
    LET at == {i \in 1..Len(stack) : stack[i].k \in kinds}
    IN IF at = {} THEN 0 ELSE CHOOSE i \in at : \A j \in at : j <= i
InArray(stack) ==
    LET i == NearestOpen(stack, {"LSQB", "LBRACE"})
    IN i > 0 /\ stack[i].k = "LSQB"

\* what may follow a complete expression
AfterExpr(stack) ==
    {"AMPERSAND", "VBAR"}
        \cup (IF NearestOpen(stack, {"LPAR"}) > 0 THEN {"RPAR"} ELSE {"$END"})

\* the terminals the parser accepts with this stack
Accepts(stack) ==
    LET top == Kind(stack, 1)
    IN CASE top \in {"EMPTY", "LPAR", "AMPERSAND", "VBAR"} -> {"BANG", "LPAR", "NAME"}
         [] top = "BANG" -> {"LPAR", "NAME"}
         [] top = "NAME" -> CompareOps
         [] top = "op" ->
              IF stack[Len(stack)].rule = "in_" THEN {"LSQB"} ELSE ValueStart
         [] top = "LSQB" -> ValueStart \cup {"RSQB"}
         [] top = "LBRACE" -> {"STRING", "RBRACE"}
         [] top = "COMMA" -> IF InArray(stack) THEN ValueStart ELSE {"STRING"}
         [] top = "key" -> {"COLON"}
         [] top = "COLON" -> ValueStart
         [] top = "value" ->
              IF Kind(stack, 2) = "op" THEN AfterExpr(stack)
              ELSE IF InArray(stack) THEN {"COMMA", "RSQB"}
              ELSE {"COMMA", "RBRACE"}
         [] top = "expr" -> AfterExpr(stack)

\* the stack without its n topmost entries
Pop(stack, n) == SubSeq(stack, 1, Len(stack) - n)
Peek(stack, d) == stack[Len(stack) + 1 - d]

\* the callback of a comparison rule
CallRule(rule, args) ==
    CASE rule = "eq" -> eq(args)
      [] rule = "ne" -> ne(args)
      [] rule = "gt" -> gt(args)
      [] rule = "ge" -> ge(args)
      [] rule = "lt" -> lt(args)
      [] rule = "le" -> le(args)
      [] rule = "contains" -> contains(args)
      [] rule = "in_" -> in_(args)

\* the values between the innermost open bracket and the top, in order
Children(stack, open, kind) ==
    LET at == {i \in (open + 1)..Len(stack) : stack[i].k = kind}
        nth(n) == CHOOSE i \in at : Cardinality({j \in at : j < i}) = n - 1
    IN [n \in 1..Cardinality(at) |-> stack[nth(n)].v]

(***************************************************************************)
(* A step of the parser yields a new stack, or the error a callback        *)
(* raised: an exception ends the parse at once.                            *)
(***************************************************************************)
Ok(stack) == [stack |-> stack, raised |-> NoneV]
Failed(error) == [stack |-> <<>>, raised |-> error]

\* comparison : NAME OP value
ReduceComparison(stack) ==
    IF Kind(stack, 1) = "value" /\ Kind(stack, 2) = "op" THEN
        LET r == CallRule(Peek(stack, 2).rule, <<Peek(stack, 3).v, Peek(stack, 1).v>>)
        IN IF IsRaise(r) THEN Failed(r) ELSE Ok(Append(Pop(stack, 3), Expr(r)))
    ELSE Ok(stack)

\* not_ : "!" atom
ReduceNot(stack) ==
    IF Kind(stack, 1) = "expr" /\ Kind(stack, 2) = "BANG"
    THEN Append(Pop(stack, 2), Expr(not_(<<Peek(stack, 1).v>>)))
    ELSE stack

\* and_ : and_ "&" not_
ReduceAnd(stack) ==
    IF Kind(stack, 1) = "expr" /\ Kind(stack, 2) = "AMPERSAND"
    THEN Append(Pop(stack, 3), Expr(and_(<<Peek(stack, 3).v, Peek(stack, 1).v>>)))
    ELSE stack

\* or_ : or_ "|" and_, once the lookahead shows the right operand is complete
ReduceOr(stack, la) ==
    IF /\ la \in {"VBAR", "RPAR", "$END"}
       /\ Kind(stack, 1) = "expr" /\ Kind(stack, 2) = "VBAR"
    THEN Append(Pop(stack, 3), Expr(or_(<<Peek(stack, 3).v, Peek(stack, 1).v>>)))
    ELSE stack

\* the reductions made before the lookahead la is shifted
Reduce(stack, la) ==
    IF la \in {"AMPERSAND", "VBAR", "RPAR", "$END"} THEN
        LET c == ReduceComparison(stack)
        IN IF IsRaise(c.raised) THEN c
           ELSE Ok(ReduceOr(ReduceAnd(ReduceNot(c.stack)), la))
    ELSE Ok(stack)

\* does a STRING shifted on this stack open a pair of an object?
KeyPosition(stack) ==
    \/ Kind(stack, 1) = "LBRACE"
    \/ Kind(stack, 1) = "COMMA" /\ ~InArray(stack)

\* the stack after the token is shifted; a terminal with a callback puts the
\* callback's value on the stack, a closing bracket completes its rule
Shift(stack, tok, model_) ==
    LET ty == tok.type
        open == NearestOpen(stack, {"LSQB", "LBRACE"})
    IN CASE ty = "NAME" ->
              LET r == NAME(model_, tok.text)
              IN IF IsRaise(r) THEN Failed(r) ELSE Ok(Append(stack, Name(r)))
         [] ty \in CompareOps -> Ok(Append(stack, Op(RuleOf[ty])))
         [] ty = "NULL" -> Ok(Append(stack, Value(NULL(tok.text))))
         [] ty = "TRUE" -> Ok(Append(stack, Value(TRUE_(tok.text))))
         [] ty = "FALSE" -> Ok(Append(stack, Value(FALSE_(tok.text))))
         [] ty = "NUMBER" -> Ok(Append(stack, Value(NUMBER(tok.text))))
         [] ty = "STRING" ->
              IF KeyPosition(stack) THEN Ok(Append(stack, Key(STRING_(tok.text))))
              ELSE Ok(Append(stack, Value(STRING_(tok.text))))
         [] ty = "RSQB" ->
              Ok(Append(SubSeq(stack, 1, open - 1),
                        Value(array(Children(stack, open, "value")))))
         [] ty = "RBRACE" ->
              LET keys == Children(stack, open, "key")
                  vals == Children(stack, open, "value")
              IN Ok(Append(SubSeq(stack, 1, open - 1),
                           Value(object([n \in 1..Len(keys) |->
                                            PAIR(<<keys[n], vals[n]>>)]))))
         [] ty = "RPAR" -> Ok(Append(Pop(stack, 2), Expr(Peek(stack, 1).v)))
         [] OTHER -> Ok(Append(stack, Mark(ty)))

(***************************************************************************)
(* One compile call: WhereParser.parse(where).                             *)
(***************************************************************************)
IdleCall ==
    [input |-> <<>>, pos |-> 1, stack |-> <<>>, status |-> "idle", result |-> NoneV]
\* a parse starts from a parser state of its own: an empty stack
NewCall(where) ==
    [input |-> where, pos |-> 1, stack |-> <<>>, status |-> "parsing",
     result |-> NoneV]
Done(st, result) == [st EXCEPT !.status = "done", !.result = result]

\* The tokens the lexer offers the parser: LALR states are shared between the
\* places a comparison may stand, so after a complete expression ")" and the
\* end of input are always lexed, the pending rules are reduced, and only
\* then the parser finds the token out of place.
LexAccepts(stack) ==
    IF Accepts(stack) \cap {"AMPERSAND", "VBAR"} # {}
    THEN {"AMPERSAND", "VBAR", "RPAR", "$END"}
    ELSE Accepts(stack)

\* parse with Lark's errors caught: None is returned in their place
StepSwallowing(st, model_) ==
    LET tok == Lex(st.input, st.pos, LexAccepts(st.stack))
    IN IF tok.type \notin LexAccepts(st.stack) THEN Done(st, NoneV)
       ELSE LET red == Reduce(st.stack, tok.type)
            IN IF IsRaise(red.raised) THEN Done(st, red.raised)
               ELSE IF tok.type \notin Accepts(st.stack) THEN Done(st, NoneV)
               ELSE IF tok.type = "$END" THEN Done(st, red.stack[1].v)
               ELSE LET sh == Shift(red.stack, tok, model_)
                    IN IF IsRaise(sh.raised) THEN Done(st, sh.raised)
                       ELSE [st EXCEPT !.pos = tok.end, !.stack = sh.stack]

\* a grammar whose comparison takes any expression on its left:
\* comparison : atom OP value
StepOperandAnywhere(st, model_) ==
    LET wide == IF \/ Kind(st.stack, 1) = "expr"
                   \/ Kind(st.stack, 1) = "value" /\ Kind(st.stack, 2) = "op"
                THEN CompareOps ELSE {}
        tok == Lex(st.input, st.pos, LexAccepts(st.stack) \cup wide)
    IN IF tok.type \notin LexAccepts(st.stack) \cup wide
       THEN Done(st, Raise("UnexpectedInput"))
       ELSE LET red == IF tok.type \in wide THEN ReduceComparison(st.stack)
                       ELSE Reduce(st.stack, tok.type)
            IN IF IsRaise(red.raised) THEN Done(st, red.raised)
               ELSE IF tok.type \notin Accepts(st.stack) \cup wide
                    THEN Done(st, Raise("UnexpectedInput"))
               ELSE IF tok.type = "$END" THEN Done(st, red.stack[1].v)
               ELSE LET sh == Shift(red.stack, tok, model_)
                    IN IF IsRaise(sh.raised) THEN Done(st, sh.raised)
                       ELSE [st EXCEPT !.pos = tok.end, !.stack = sh.stack]

\* lex one token, reduce, and shift it or finish; input the grammar does not
\* allow raises one of Lark's UnexpectedInput errors
Step(st, model_) ==
    LET tok == Lex(st.input, st.pos, LexAccepts(st.stack))
    IN IF tok.type \notin LexAccepts(st.stack)
       THEN Done(st, Raise("UnexpectedInput"))
       ELSE LET red == Reduce(st.stack, tok.type)
            IN IF IsRaise(red.raised) THEN Done(st, red.raised)
               ELSE IF tok.type \notin Accepts(st.stack)
                    THEN Done(st, Raise("UnexpectedInput"))
               ELSE IF tok.type = "$END" THEN Done(st, red.stack[1].v)
               ELSE LET sh == Shift(red.stack, tok, model_)
                    IN IF IsRaise(sh.raised) THEN Done(st, sh.raised)
                       ELSE [st EXCEPT !.pos = tok.end, !.stack = sh.stack]

\* the call run to its end with nothing else going on
RECURSIVE Run(_, _)
Run(st, model_) == IF st.status = "parsing" THEN Run(Step(st, model_), model_) ELSE st
Compile(where, model_) == Run(NewCall(where), model_).result

(***************************************************************************)
(* The filter strings the calls are given.                                 *)
(***************************************************************************)
\* the decimal digits of n
RECURSIVE RenderInt(_)
RenderInt(n) ==
    IF n < 10 THEN <<CharOrder[Ord("0") + n]>>
    ELSE RenderInt(n \div 10) \o <<CharOrder[Ord("0") + (n % 10)]>>

\* literals as written, each with the Python value it stands for
IntLiterals == {[text |-> RenderInt(n), value |-> IntV(n)] : n \in 0..MaxInt}
OtherLiterals ==
    {[text |-> <<"1", "2">>, value |-> IntV(12)],
     [text |-> <<"3", "0", "5">>, value |-> IntV(305)],
     [text |-> <<"1", ".", "5">>, value |-> FloatV(15, 1)],
     [text |-> <<"2", ".", "5", "0">>, value |-> FloatV(25, 1)],
     [text |-> <<"1", ".", "0">>, value |-> FloatV(1, 0)],
     [text |-> <<Quote, "a", Quote>>, value |-> StrV(<<"a">>)],
     [text |-> <<Quote, Quote>>, value |-> StrV(<<>>)],
     [text |-> <<Quote, "a", "&", "b", Quote>>, value |-> StrV(<<"a", "&", "b">>)],
     [text |-> <<Quote, "t", "e", "s", "t", Quote>>, value |-> StrV(test)],
     [text |-> <<"t", "r", "u", "e">>, value |-> BoolV(TRUE)],
     [text |-> <<"f", "a", "l", "s", "e">>, value |-> BoolV(FALSE)],
     [text |-> <<"{", Quote, "a", Quote, ":", "1", "}">>,
      value |-> DictV(<<<<StrV(<<"a">>), IntV(1)>>>>)],
     [text |-> <<"{", Quote, "a", Quote, ":", "1", ",", Quote, "b", Quote, ":",
                 "n", "u", "l", "l", ",", Quote, "a", Quote, ":", "2", "}">>,
      value |-> DictV(<<<<StrV(<<"a">>), IntV(2)>>, <<StrV(<<"b">>), NoneV>>>>)],
     [text |-> <<"{", "}">>, value |-> DictV(<<>>)]}
ScalarLiterals == IntLiterals \cup OtherLiterals
NullLiteral == [text |-> <<"n", "u", "l", "l">>, value |-> NoneV]

\* "[" items, comma-separated "]"
RECURSIVE Joined(_, _)
Joined(texts, sep) ==
    IF texts = <<>> THEN <<>>
    ELSE IF Len(texts) = 1 THEN texts[1]
    ELSE texts[1] \o sep \o Joined(Tail(texts), sep)
ArrayLiteral(items) ==
    [text |-> <<"[">> \o Joined([i \in DOMAIN items |-> items[i].text], <<",">>)
                 \o <<"]">>,
     value |-> ListV([i \in DOMAIN items |-> items[i].value])]
\* arrays of up to MaxArrayLen integers: from a first value on, every value
\* again (step 0), counting up (step 1) or counting down (step MaxInt - 1)
IntArrays ==
    {ArrayLiteral([i \in 1..n |->
            LET v == ((first + (i - 1) * step - 1) % MaxInt) + 1
            IN [text |-> RenderInt(v), value |-> IntV(v)]]) :
        n \in 0..MaxArrayLen, first \in 1..MaxInt, step \in {0, 1, MaxInt - 1}}
MixedArrays ==
    {ArrayLiteral(<<NullLiteral, ArrayLiteral(<<>>)>>),
     ArrayLiteral(<<ArrayLiteral(<<[text |-> <<"1">>, value |-> IntV(1)]>>),
                    [text |-> <<Quote, "a", Quote>>, value |-> StrV(<<"a">>)]>>)}
ArrayLiterals == IntArrays \cup MixedArrays
Literals == ScalarLiterals \cup ArrayLiterals \cup {NullLiteral}

OpText ==
    [eq |-> <<"=">>, ne |-> <<"!", "=">>, gt |-> <<">">>, ge |-> <<">", "=">>,
     lt |-> <<"<">>, le |-> <<"<", "=">>, contains |-> <<"#">>, in_ |-> <<"@">>]
Rules == DOMAIN OpText
Names == Fields \cup {tablename, ghost}

\* name OP literal
Comparison(name, rule, lit) == name \o OpText[rule] \o lit.text
Comparisons ==
    {Comparison(n, r, l) : n \in Names, r \in Rules \ {"in_"},
                           l \in ScalarLiterals \cup {NullLiteral}}
        \cup {Comparison(n, r, l) : n \in Names, r \in {"in_", "eq", "contains"},
                                    l \in ArrayLiterals}

\* Filter strings of k comparisons  name=i  joined by "&" and "|": the i-th
\* compares with i, clauses lo..hi are parenthesised (none when lo = 0) and
\* the g-th names ghost instead of id (none when g = 0).
Shapes ==
    {[k |-> k, ops |-> ops, lo |-> lo, hi |-> hi, g |-> g] :
        k \in 2..MaxClauses, ops \in [1..(MaxClauses - 1) -> {"&", "|"}],
        lo \in 0..MaxClauses, hi \in 1..MaxClauses, g \in 0..MaxClauses}
WellFormed(m) ==
    /\ m.hi <= m.k /\ m.g <= m.k
    /\ \A i \in (m.k)..(MaxClauses - 1) : m.ops[i] = "&"
    /\ IF m.lo = 0 THEN m.hi = 1 ELSE m.lo < m.hi
ClauseName(m, i) == IF m.g = i THEN ghost ELSE id
RECURSIVE JoinedText(_, _)
JoinedText(m, i) ==
    (IF m.lo = i THEN <<"(">> ELSE <<>>)
        \o ClauseName(m, i) \o <<"=">> \o RenderInt(i)
        \o (IF m.lo > 0 /\ m.hi = i THEN <<")">> ELSE <<>>)
        \o (IF i = m.k THEN <<>> ELSE <<m.ops[i]>> \o JoinedText(m, i + 1))
JoinedShapes == {m \in Shapes : WellFormed(m)}
Joineds == {JoinedText(m, 1) : m \in JoinedShapes}

\* negations: "!" before a parenthesised or a bare comparison, alone or
\* followed by a second comparison
NegatedShapes ==
    {[f |-> f, lit |-> l, paren |-> p, tail |-> t] :
        f \in Fields, l \in {NullLiteral} \cup IntLiterals, p \in BOOLEAN,
        t \in {"", "&", "|"}}
NegatedText(m) ==
    <<"!">> \o (IF m.paren THEN <<"(">> ELSE <<>>)
        \o Comparison(m.f, "eq", m.lit)
        \o (IF m.paren THEN <<")">> ELSE <<>>)
        \o (IF m.tail = "" THEN <<>> ELSE <<m.tail>> \o Comparison(id, "eq", NullLiteral))
Negateds == {NegatedText(m) : m \in NegatedShapes}

\* strings the grammar does not allow, made from a comparison  name=literal
MalformedKinds ==
    {"missing value", "doubled operator", "unterminated group", "stray )",
     "trailing &", "trailing |", "name only", "value first", "no name",
     "juxtaposed", "unterminated array", "trailing comma", "empty group",
     "empty", "value both", "group first"}
MalformedLiterals == {NullLiteral, [text |-> <<"1">>, value |-> IntV(1)]}
MalformedText(kind, n, r, l) ==
    LET c == Comparison(n, r, l)
    IN CASE kind = "missing value" -> n \o OpText[r]
         [] kind = "doubled operator" -> n \o OpText[r] \o OpText[r] \o l.text
         [] kind = "unterminated group" -> <<"(">> \o c
         [] kind = "stray )" -> c \o <<")">>
         [] kind = "trailing &" -> c \o <<"&">>
         [] kind = "trailing |" -> c \o <<"|">>
         [] kind = "name only" -> n
         [] kind = "value first" -> l.text \o OpText[r] \o n
         [] kind = "no name" -> OpText[r] \o l.text
         [] kind = "juxtaposed" -> c \o c
         [] kind = "unterminated array" -> n \o OpText[r] \o <<"[">> \o l.text
         [] kind = "trailing comma" ->
                n \o OpText[r] \o <<"[">> \o l.text \o <<",", "]">>
         [] kind = "empty group" -> <<"(", ")">> \o <<"&">> \o c
         [] kind = "empty" -> <<>>
         [] kind = "value both" -> l.text \o OpText[r] \o l.text
         [] kind = "group first" -> <<"(">> \o c \o <<")">> \o OpText[r] \o l.text
MalformedOver(names) ==
    {MalformedText(kind, n, r, l) :
        kind \in MalformedKinds, n \in names, r \in {"eq", "gt", "contains"},
        l \in MalformedLiterals}
Malformeds == MalformedOver(Names)

Inputs == Comparisons \cup Joineds \cup Negateds \cup Malformeds

\* the filter strings of which the first result is kept for comparison
Tracked ==
    {Comparison(id, "eq", [text |-> <<"1">>, value |-> IntV(1)]),
     JoinedText([k |-> 2, ops |-> [i \in 1..(MaxClauses - 1) |-> "&"], lo |-> 0,
                 hi |-> 1, g |-> 0], 1),
     NegatedText([f |-> id, lit |-> NullLiteral, paren |-> TRUE, tail |-> "|"]),
     MalformedText("unterminated group", id, "eq", NullLiteral)}

(***************************************************************************)
(* ViewSet (flask_viewsets/viewsets.py) with the subclass of               *)
(* tests/test_flask_viewset.py: what a request ends with, the handlers,    *)
(* the decorators of an action and the attributes getattr finds.           *)
(***************************************************************************)
\* a response with its status, an exception that left the handler, and the
\* response abort(code) raises; ran lists the handlers whose body ran
Returned(status, body, ran) ==
    [status |-> status, body |-> body, error |-> "", ran |-> ran]
Raised(error, ran) == [status |-> 500, body |-> NoneV, error |-> error, ran |-> ran]
abort(code) == [status |-> code, body |-> NoneV, error |-> "HTTPException", ran |-> <<>>]

\* the keyword arguments the URL rule's converters give: none, or id_
NoKwargs == [names |-> {}, id_ |-> 0]
Kwargs(n) == [names |-> {"id_"}, id_ |-> n]
UrlKwargs == {NoKwargs} \cup {Kwargs(n) : n \in 0..1}

Handlers ==
    {"create", "list", "retrieve", "update", "partial_update", "destroy",
     "to_be_decorated"}
\* the keyword parameters of each handler
Params ==
    [create |-> {}, list |-> {}, retrieve |-> {"id_"}, update |-> {"id_"},
     partial_update |-> {"id_"}, destroy |-> {"id_"}, to_be_decorated |-> {}]
IdBody(n) == DictV(<<<<StrV(id), IntV(n)>>>>)
\* the body of TestViewSet.<name>(**kwargs)
RunHandler(name, kwargs) ==
    IF kwargs.names # Params[name] THEN Raised("TypeError", <<>>)
    ELSE CASE name = "create" -> Returned(201, IdBody(0), <<name>>)
           [] name = "list" -> Returned(200, ListV(<<IdBody(0)>>), <<name>>)
           [] name \in {"retrieve", "update", "partial_update"} ->
                Returned(200, IdBody(kwargs.id_), <<name>>)
           [] name = "destroy" -> Returned(204, StrV(<<>>), <<name>>)
           [] name = "to_be_decorated" -> Raised("NotImplementedError", <<name>>)

\* what getattr(self, action, None) finds: a bound method, another attribute
\* of the class, or None
Method(name) == [kind |-> "method", name |-> name]
Decorated == [kind |-> "decorated", name |-> ""]
NotCallable == [kind |-> "dict", name |-> ""]
NoAttribute == [kind |-> "none", name |-> ""]
Attribute(action) ==
    IF action \in Handlers THEN Method(action)
    ELSE IF action \in {"action_decorators", "method_actions"} THEN NotCallable
    ELSE NoAttribute

\* action_decorators of TestViewSet: the identity, then a decorator that
\* puts a function of its own in the handler's place
action_decorators == [to_be_decorated |-> <<"identity", "decorator">>]
Decorate(decorator, func) == IF decorator = "identity" THEN func ELSE Decorated
RECURSIVE DecorateAll(_, _)
DecorateAll(decorators, func) ==
    IF decorators = <<>> THEN func
    ELSE DecorateAll(Tail(decorators), Decorate(Head(decorators), func))

\* func(**kwargs)
CallFunc(func, kwargs) ==
    CASE func.kind = "method" -> RunHandler(func.name, kwargs)
      [] func.kind = "decorated" -> Returned(200, DictV(<<>>), <<>>)
      [] OTHER -> Raised("TypeError", <<>>)

\* request.method and str.lower() of it
Methods == {"GET", "HEAD", "POST", "PUT", "PATCH", "DELETE", "TRACE"}
Lower ==
    [GET |-> "get", HEAD |-> "head", POST |-> "post", PUT |-> "put",
     PATCH |-> "patch", DELETE |-> "delete", TRACE |-> "trace"]

\* the method to action mappings views are made with
MethodActions ==
    {[post |-> "create", get |-> "list"],
     [get |-> "retrieve", put |-> "update", patch |-> "partial_update",
      delete |-> "destroy"],
     [get |-> "to_be_decorated"],
     [post |-> "missing", put |-> "update"],
     [head |-> "list", delete |-> "action_decorators"]}

\* self.method_actions.get(method), with get standing in for a missing head
ActionOf(method_actions, method) ==
    IF method \in DOMAIN method_actions THEN method_actions[method]
    ELSE IF method = "head" /\ "get" \in DOMAIN method_actions
         THEN method_actions["get"]
    ELSE ""

\* the rest of dispatch_request once the action is looked up ("" is None)
Handle(action, kwargs) ==
    LET func == Attribute(action)
    IN IF action = "" THEN abort(405)
       ELSE IF func = NoAttribute THEN Raised("RuntimeError", <<>>)
       ELSE IF action \in DOMAIN action_decorators
            THEN CallFunc(DecorateAll(action_decorators[action], func), kwargs)
       ELSE CallFunc(func, kwargs)
\* a dispatch in which HEAD is not served by the action of GET
DispatchNoHead(method_actions, method, kwargs) ==
    Handle(IF Lower[method] \in DOMAIN method_actions
           THEN method_actions[Lower[method]] ELSE "", kwargs)
\* ViewSet(method_actions).dispatch_request(**kwargs) for a request method
Dispatch(method_actions, method, kwargs) ==
    Handle(ActionOf(method_actions, Lower[method]), kwargs)

\* no request answered yet
NoResponse == [kind |-> "none"]

(***************************************************************************)
(* The ViewSets extension (flask_viewsets/extension.py), the applications  *)
(* it is initialised on and the packages that can be imported.             *)
(***************************************************************************)
\* a ViewSetsConfig: max_limit, None when the key is not there
Config(max_limit) == [max_limit |-> max_limit]
EmptyConfig == Config(NoneV)
\* app.config: the value under "VIEWSETS", if there is one
NoViewsetsKey == [present |-> FALSE, value |-> EmptyConfig]
ViewsetsKey(config) == [present |-> TRUE, value |-> config]
\* the extensions ViewSets looks for, and the packages behind them
Apps == {1, 2}
Packages == {"flask_sqlalchemy", "marshmallow_sqlalchemy", "flask_marshmallow"}
PackageOf == [sqlalchemy |-> "flask_sqlalchemy", marshmallow |-> "flask_marshmallow"]
ExtensionKey == [sqlalchemy |-> "sqlalchemy", marshmallow |-> "flask-marshmallow"]
NewApp(config) == [extensions |-> {}, config |-> config]
\* the ViewSets object before ViewSets(...) has run, and class attributes
\* that are not set (ViewSet) or None (ModelViewSet)
NoExtension ==
    [constructed |-> FALSE, given |-> NoneV, config |-> EmptyConfig,
     ViewSet |-> NoneV, ModelViewSet |-> NoneV]
\* view_set_cls, and
\* class ModelViewSet(base_model_view_set): db = app.extensions["sqlalchemy"]
ViewSetClass == [t |-> "class", name |-> "ViewSet", db |-> 0]
GeneratedModelViewSet(app) == [t |-> "class", name |-> "ModelViewSet", db |-> app]
\* what an init_app call found: the app, its extensions as the call began
\* and the ModelViewSet the extension had
NoInit == [set |-> FALSE, app |-> 0, extensions |-> {}, before |-> NoneV]

\* config or {}
OrEmpty(config) == IF config = NoneV THEN EmptyConfig ELSE config
\* app.config.get("VIEWSETS", {})
GetViewsets(app) == IF app.config.present THEN app.config.value ELSE EmptyConfig
\* app.config.get("VIEWSETS", self.config): the constructor's config kept
\* for an app without the key
GetViewsetsOr(app, config) ==
    IF app.config.present THEN app.config.value ELSE config

\* have all the checks of init_app passed?
Available(packages, extensions) ==
    /\ "flask_sqlalchemy" \in packages
    /\ "marshmallow_sqlalchemy" \in packages
    /\ "flask_marshmallow" \in packages
    /\ "sqlalchemy" \in extensions
    /\ "flask-marshmallow" \in extensions

\* self.init_app(app): the extension, the applications and the record of
\* the call afterwards
InitAppWith(e, as, a, packages, config) ==
    [ext |-> [e EXCEPT !.config = config,
                       !.ViewSet = ViewSetClass,
                       !.ModelViewSet =
                           IF Available(packages, as[a].extensions)
                           THEN GeneratedModelViewSet(a) ELSE @],
     apps |-> [as EXCEPT ![a].extensions = @ \cup {"viewsets"}],
     lastInit |-> [set |-> TRUE, app |-> a, extensions |-> as[a].extensions,
                   before |-> e.ModelViewSet]]
\* an init_app that keeps the constructor's config for an app without the key
InitAppKeepingGiven(e, as, a, packages) ==
    InitAppWith(e, as, a, packages, GetViewsetsOr(as[a], e.config))
\* an init_app that does not look for the flask-marshmallow extension
InitAppUnchecked(e, as, a, packages) ==
    LET r == InitAppWith(e, as, a, packages, GetViewsets(as[a]))
    IN [r EXCEPT !.ext.ModelViewSet =
            IF Available(packages, as[a].extensions \cup {"flask-marshmallow"})
            THEN GeneratedModelViewSet(a) ELSE @]
InitApp(e, as, a, packages) == InitAppWith(e, as, a, packages, GetViewsets(as[a]))

\* request.args: a parameter that is not there, or its text
NoArg == [present |-> FALSE, text |-> <<>>]
Arg(text) == [present |-> TRUE, text |-> text]
\* request.args.get(key, type=int): None when int(text) raises ValueError
ArgInt(raw) ==
    IF ~raw.present \/ raw.text = <<>> THEN NoneV
    ELSE IF AllDigits(raw.text) THEN IntV(ParseInt(raw.text, 0))
    ELSE IF /\ Head(raw.text) = "-" /\ Len(raw.text) > 1
            /\ AllDigits(Tail(raw.text))
         THEN IntV(0 - ParseInt(Tail(raw.text), 0))
    ELSE NoneV
\* Python's truth value of an int | None
Truthy(x) == IF x = NoneV THEN FALSE ELSE x.n # 0
Min(a, b) == IF a <= b THEN a ELSE b
\* a limit property that trusts the request
LimitTrusting(requested_limit, max_limit) ==
    IF Truthy(requested_limit) THEN requested_limit
    ELSE IF Truthy(max_limit) THEN max_limit ELSE requested_limit
\* the limit property for a requested limit and the configured max_limit
Limit(requested_limit, max_limit) ==
    IF Truthy(requested_limit) /\ Truthy(max_limit)
    THEN IntV(Min(requested_limit.n, max_limit.n))
    ELSE IF Truthy(max_limit) THEN max_limit ELSE requested_limit

(***************************************************************************)
(* AbstractBaseModelViewSet (flask_viewsets/masqla/viewsets.py): the       *)
(* stored records, the clauses made of a request and the host's reading    *)
(* of them.                                                                *)
(***************************************************************************)
\* a stored record of the model: a value for each column; ids are not null
Row(n, items) == [c \in Fields |-> IF c = id THEN IntV(n) ELSE ListV(items)]
RowIds == 0..MaxId
RowArrays == {<<>>, <<IntV(1)>>}
Rows == {Row(n, items) : n \in RowIds, items \in RowArrays}

\* a request: request.view_args as (name, value) pairs and the query
\* parameters where, order_by, limit and offset
Request(view_args, where, order_by, limit_, offset_) ==
    [view_args |-> view_args, where |-> where, order_by |-> order_by,
     limit |-> limit_, offset |-> offset_]

IntLit(n) == [text |-> RenderInt(n), value |-> IntV(n)]
\* the URL arguments and the filters of the requests
ViewArgs ==
    {<<>>, <<<<id, IntV(0)>>>>, <<<<id, IntV(1)>>>>, <<<<ghost, IntV(1)>>>>}
Wheres ==
    {NoArg, Arg(<<>>),
     Arg(Comparison(id, "eq", IntLit(1))),
     Arg(Comparison(id, "gt", IntLit(0))),
     Arg(Comparison(id, "eq", NullLiteral)),
     Arg(NegatedText([f |-> id, lit |-> NullLiteral, paren |-> TRUE, tail |-> ""])),
     Arg(Comparison(id, "eq", IntLit(0)) \o <<"|">> \o Comparison(id, "eq", IntLit(2))),
     Arg(Comparison(array_, "contains", IntLit(1))),
     Arg(Comparison(tablename, "eq", IntLit(1))),
     Arg(Comparison(ghost, "eq", IntLit(1))),
     Arg(MalformedText("unterminated group", id, "eq", IntLit(1)))}
\* WhereParser(model=self.model).parse(where) for the filters of the
\* requests, the model of the viewset class being the model class above
ParsedWheres ==
    {<<where, IF where.present THEN Compile(where.text, TestModel) ELSE NoneV>> :
        where \in Wheres}
Parsed(where) == (CHOOSE pair \in ParsedWheres : pair[1] = where)[2]

\* where_clause: the clauses it yields, or the exception it raises on the way
Clauses(clauses) == [raised |-> NoneV, clauses |-> clauses]
Failing(error) == [raised |-> error, clauses |-> <<>>]
RECURSIVE ViewArgClauses(_, _)
ViewArgClauses(view_args, model_) ==
    IF view_args = <<>> THEN Clauses(<<>>)
    ELSE LET attribute == NAME(model_, view_args[1][1])
             rest == ViewArgClauses(Tail(view_args), model_)
         IN IF IsRaise(attribute) THEN Failing(attribute)
            ELSE IF IsRaise(rest.raised) THEN rest
            ELSE Clauses(<<HostCompare("eq", attribute, view_args[1][2])>>
                            \o rest.clauses)
\* the clauses yielded so far and then what the parser gave
Yield(clauses, parsed) ==
    IF IsRaise(parsed) THEN Failing(parsed) ELSE Clauses(Append(clauses, parsed))
\* a where_clause that leaves the URL arguments out
where_clauseWithoutViewArgs(request) ==
    IF request.where.present /\ request.where.text # <<>>
    THEN Yield(<<>>, Parsed(request.where))
    ELSE Clauses(<<>>)
where_clause(request) ==
    LET args == ViewArgClauses(request.view_args, TestModel)
    IN IF IsRaise(args.raised) THEN args
       ELSE IF request.where.present /\ request.where.text # <<>>
            THEN Yield(args.clauses, Parsed(request.where))
       ELSE args

\* str.split(","): the texts between the commas
RECURSIVE Split(_, _)
Split(text, current) ==
    IF text = <<>> THEN <<current>>
    ELSE IF Head(text) = "," THEN <<current>> \o Split(Tail(text), <<>>)
    ELSE Split(Tail(text), Append(current, Head(text)))
\* a sort key: the column, and whether .desc() was applied
SortKey(column, desc) == [t |-> "key", column |-> column, desc |-> desc]
\* getattr(self.model, field[1:]).desc() or getattr(self.model, field);
\* ascending says the direction mark is not to be honoured
FieldKey(field, model_, ascending) ==
    LET descending == field # <<>> /\ Head(field) = "-"
        attribute == NAME(model_, IF descending THEN Tail(field) ELSE field)
    IN IF IsRaise(attribute) THEN attribute
       ELSE IF descending /\ ~IsColumn(attribute) THEN Raise("AttributeError")
       ELSE SortKey(attribute, descending /\ ~ascending)
RECURSIVE FieldKeys(_, _, _)
FieldKeys(fields, model_, ascending) ==
    IF fields = <<>> THEN Clauses(<<>>)
    ELSE LET key == FieldKey(fields[1], model_, ascending)
             rest == FieldKeys(Tail(fields), model_, ascending)
         IN IF IsRaise(key) THEN Failing(key)
            ELSE IF IsRaise(rest.raised) THEN rest
            ELSE Clauses(<<key>> \o rest.clauses)
\* an order_by_clause that sorts every field ascending
order_by_clauseAscending(request) ==
    IF request.order_by.present /\ request.order_by.text # <<>>
    THEN FieldKeys(Split(request.order_by.text, <<>>), TestModel, TRUE)
    ELSE Clauses(<<>>)
order_by_clause(request) ==
    IF request.order_by.present /\ request.order_by.text # <<>>
    THEN FieldKeys(Split(request.order_by.text, <<>>), TestModel, FALSE)
    ELSE Clauses(<<>>)

\* The host's reading of a clause for one record, in SQL's three-valued
\* logic: "T", "F", or "U" where a null is compared.
IntLess(a, b) == a.t = "int" /\ b.t = "int" /\ a.n < b.n
Truth(b) == IF b THEN "T" ELSE "F"
Not3(v) == IF v = "T" THEN "F" ELSE IF v = "F" THEN "T" ELSE "U"
EvalBinary(op, v, right) ==
    CASE op = "is" -> Truth(v = NoneV)
      [] op = "is_not" -> Truth(v # NoneV)
      [] op = "ne" /\ right = NoneV -> Truth(v # NoneV)
      [] op = "in" ->
           IF v = NoneV THEN "U"
           ELSE Truth(\E i \in DOMAIN right.items : right.items[i] = v)
      [] op = "contains" ->
           IF v.t = "list" THEN Truth(\E i \in DOMAIN v.items : v.items[i] = right)
           ELSE "U"
      [] OTHER ->
           IF v = NoneV \/ right = NoneV THEN "U"
           ELSE CASE op = "eq" -> Truth(v = right)
                  [] op = "ne" -> Truth(v # right)
                  [] op = "lt" -> Truth(IntLess(v, right))
                  [] op = "le" -> Truth(IntLess(v, right) \/ v = right)
                  [] op = "gt" -> Truth(IntLess(right, v))
                  [] op = "ge" -> Truth(IntLess(right, v) \/ v = right)
RECURSIVE Eval(_, _)
Eval(clause, row) ==
    CASE clause.t = "bool" -> Truth(clause.b)
      [] clause.t = "binary" ->
           EvalBinary(clause.op, row[clause.left.name], clause.right)
      [] clause.t = "unary" -> Not3(Eval(clause.element, row))
      [] clause.t = "clauselist" ->
           LET truths == {Eval(clause.clauses[i], row) : i \in DOMAIN clause.clauses}
           IN IF clause.op = "and"
              THEN IF "F" \in truths THEN "F"
                   ELSE IF "U" \in truths THEN "U" ELSE "T"
              ELSE IF "T" \in truths THEN "T"
                   ELSE IF "U" \in truths THEN "U" ELSE "F"
\* select(model).where(*clauses): the records every clause is true of
Select(rows, clauses) ==
    {row \in rows : \A i \in DOMAIN clauses : Eval(clauses[i], row) = "T"}

\* the order of two column values: integers by size, arrays item by item
RECURSIVE ItemsLess(_, _)
ItemsLess(a, b) ==
    IF b = <<>> THEN FALSE
    ELSE IF a = <<>> THEN TRUE
    ELSE IF a[1] # b[1] THEN a[1].n < b[1].n
    ELSE ItemsLess(Tail(a), Tail(b))
ValueLess(a, b) == IF a.t = "int" THEN a.n < b.n ELSE ItemsLess(a.items, b.items)
\* must row a come before row b under the sort keys?
RECURSIVE Before(_, _, _)
Before(keys, a, b) ==
    IF keys = <<>> THEN FALSE
    ELSE LET x == a[keys[1].column.name]
             y == b[keys[1].column.name]
         IN IF x = y THEN Before(Tail(keys), a, b)
            ELSE IF keys[1].desc THEN ValueLess(y, x) ELSE ValueLess(x, y)
\* the orders the store may return the records in: any that respects the keys
Orderings(rows, keys) ==
    {seq \in [1..Cardinality(rows) -> rows] :
        /\ \A i, j \in DOMAIN seq : i # j => seq[i] # seq[j]
        /\ \A i, j \in DOMAIN seq : i < j => ~Before(keys, seq[j], seq[i])}
\* .limit(limit).offset(offset) of an ordered result; a negative limit is
\* no limit to a store such as SQLite
Window(seq, limit_, offset_) ==
    LET from == IF offset_ = NoneV THEN 1 ELSE offset_.n + 1
        to == IF limit_ = NoneV \/ limit_.n < 0 THEN Len(seq)
              ELSE Min(Len(seq), from - 1 + limit_.n)
    IN SubSeq(seq, from, to)

RowBody(row) == [t |-> "row", row |-> row]
\* session.execute(stmt).scalars().all() of the statement built from the two
\* clauses, the limit and the offset.  The store may return the records in
\* any order the sort keys allow; what a negative limit means is the store's
\* affair: no limit (SQLite) or an error.
all(rows, wh, ob, lim, off) ==
    IF IsRaise(wh.raised)
    THEN {[result |-> Raised(wh.raised.kind, <<"list">>), limited |-> FALSE,
           limit |-> NoneV]}
    ELSE IF IsRaise(ob.raised)
    THEN {[result |-> Raised(ob.raised.kind, <<"list">>), limited |-> FALSE,
           limit |-> NoneV]}
    ELSE {[result |-> Returned(200, ListV(Window(seq, lim, off)), <<"list">>),
           limited |-> TRUE, limit |-> lim] :
             seq \in Orderings(Select(rows, wh.clauses), ob.clauses)}
         \cup (IF lim # NoneV /\ lim.n < 0
               THEN {[result |-> Raised("DBAPIError", <<"list">>),
                      limited |-> TRUE, limit |-> lim]}
               ELSE {})
\* get_instances: what the request may end with, with the limit handed to the
\* query once it has been computed
get_instances(rows, request, config) ==
    all(rows, where_clause(request), order_by_clause(request),
        Limit(ArgInt(request.limit), config.max_limit), ArgInt(request.offset))

\* session.execute(stmt).scalars().first() in place of .one()
first(rows, wh) ==
    LET found == Select(rows, wh.clauses)
    IN IF IsRaise(wh.raised)
       THEN [found |-> {}, result |-> Raised(wh.raised.kind, <<>>), session |-> <<>>]
       ELSE IF found = {}
       THEN [found |-> {}, result |-> abort(404), session |-> <<"rollback">>]
       ELSE [found |-> {CHOOSE row \in found : TRUE}, result |-> NoneV,
             session |-> <<>>]
\* session.execute(stmt).scalars().one() and the two handlers around it
one(rows, wh) ==
    LET found == Select(rows, wh.clauses)
    IN IF IsRaise(wh.raised)
       THEN [found |-> {}, result |-> Raised(wh.raised.kind, <<>>), session |-> <<>>]
       ELSE IF found = {}
       THEN [found |-> {}, result |-> abort(404), session |-> <<"rollback">>]
       ELSE IF Cardinality(found) > 1
       THEN [found |-> {}, result |-> abort(500), session |-> <<"rollback">>]
       ELSE [found |-> found, result |-> NoneV, session |-> <<>>]
\* a get_instance that takes the first record when there are several
get_instanceFirst(rows, request) == first(rows, where_clause(request))
\* get_instance: the one record found, or the response and what was done
\* with the session on the way to it
get_instance(rows, request) == one(rows, where_clause(request))

(***************************************************************************)
(* The system: the model class, the compile calls in flight, and the first *)
(* result a caller kept of a tracked filter string.                        *)
(***************************************************************************)
VARIABLES model, calls, memo
\* the views made by as_view, the set objects their methods attribute and
\* the class attribute ViewSet.methods refer to, and the last response
VARIABLES views, sets, clsMethods, response
\* the applications, the ViewSets extension, the importable packages and
\* what the last init_app call found
VARIABLES apps, ext, installed, lastInit
\* the stored records and what the last request did with the session
VARIABLES db, session
parseVars == <<calls, memo>>
viewVars == <<views, sets, clsMethods>>
extVars == <<apps, ext, installed, lastInit>>
storeVars == <<db, session>>
webVars == <<views, sets, clsMethods, response, apps, ext, installed, lastInit,
             db, session>>
vars == <<model, calls, memo, views, sets, clsMethods, response, apps, ext,
          installed, lastInit, db, session>>

Callers == 1..MaxCalls
NoMemo == [set |-> FALSE, input |-> <<>>, result |-> NoneV]

\* no compile call in flight; no view made; no extension constructed;
\* nothing stored
ParseIdle ==
    /\ model = TestModel
    /\ calls = [c \in Callers |-> IdleCall]
    /\ memo = NoMemo
ViewIdle ==
    /\ views = <<>>
    /\ sets = <<>>
    /\ clsMethods = 0
    /\ response = NoResponse
ExtIdle ==
    /\ apps = [a \in Apps |-> NewApp(NoViewsetsKey)]
    /\ ext = NoExtension
    /\ installed = Packages
    /\ lastInit = NoInit
StoreIdle ==
    /\ db = {}
    /\ session = <<>>

Init == ParseIdle /\ ViewIdle /\ ExtIdle /\ StoreIdle

\* a parse that starts on top of what the first tracked call produced
ParseBeginStale(c, where) ==
    /\ calls[c].status = "idle"
    /\ calls' = [calls EXCEPT ![c] =
                    [NewCall(where) EXCEPT !.stack =
                        IF memo.set THEN <<Expr(memo.result)>> ELSE <<>>]]
    /\ UNCHANGED <<model, memo>>
    /\ UNCHANGED webVars

\* WhereParser(model).parse(where) is entered
ParseBegin(c, where) ==
    /\ calls[c].status = "idle"
    /\ calls' = [calls EXCEPT ![c] = NewCall(where)]
    /\ UNCHANGED <<model, memo>>
    /\ UNCHANGED webVars

\* a resolver that registers the names it does not know on the model
FeedTokenRegistering(c) ==
    /\ calls[c].status = "parsing"
    /\ calls' = [calls EXCEPT ![c] = Step(calls[c], model)]
    /\ model' =
        LET tok == Lex(calls[c].input, calls[c].pos, Accepts(calls[c].stack))
        IN IF tok.type = "NAME" /\ tok.text \notin DOMAIN model
           THEN [a \in DOMAIN model \cup {tok.text} |->
                    IF a = tok.text THEN NoneV ELSE model[a]]
           ELSE model
    /\ UNCHANGED memo
    /\ UNCHANGED webVars

\* a parser state shared by all callers: every call works on the stack of
\* the first
FeedTokenSharedStack(c) ==
    /\ calls[c].status = "parsing"
    /\ LET st == Step([calls[c] EXCEPT !.stack = calls[1].stack], model)
       IN calls' = [d \in Callers |->
                      IF d = c THEN st
                      ELSE IF d = 1 THEN [calls[1] EXCEPT !.stack = st.stack]
                      ELSE calls[d]]
    /\ UNCHANGED <<model, memo>>
    /\ UNCHANGED webVars

\* the parser takes the next token of its input
FeedToken(c) ==
    /\ calls[c].status = "parsing"
    /\ calls' = [calls EXCEPT ![c] = Step(calls[c], model)]
    /\ UNCHANGED <<model, memo>>
    /\ UNCHANGED webVars

\* parse returns its predicate, or its exception reaches the caller, who
\* keeps the first result of a string in kept
ParseReturn(c, kept) ==
    /\ calls[c].status = "done"
    /\ calls' = [calls EXCEPT ![c] = IdleCall]
    /\ memo' = IF ~memo.set /\ calls[c].input \in kept
               THEN [set |-> TRUE, input |-> calls[c].input,
                     result |-> calls[c].result]
               ELSE memo
    /\ UNCHANGED model
    /\ UNCHANGED webVars

\* one caller, one call after the other, any filter string
Next ==
    \/ \E where \in Inputs : ParseBegin(1, where)
    \/ FeedToken(1)
    \/ ParseReturn(1, {})
Spec == Init /\ [][Next]_vars

\* several callers at once, each making one call after the other
NextConc ==
    \E c \in Callers :
        \/ \E where \in Tracked : ParseBegin(c, where)
        \/ FeedToken(c)
        \/ ParseReturn(c, Tracked)
SpecConc == Init /\ [][NextConc]_vars

(***************************************************************************)
(* Views of a ViewSet class and the requests dispatched to them.           *)
(***************************************************************************)
\* the keys of method_actions, and head when get is one
MethodsOf(method_actions) ==
    DOMAIN method_actions
        \cup (IF "get" \in DOMAIN method_actions THEN {"head"} ELSE {})

\* an as_view that updates the set ViewSet.methods refers to in place
as_viewInPlace(method_actions) ==
    /\ Len(views) < MaxViews
    /\ sets' = IF clsMethods = 0 THEN Append(sets, MethodsOf(method_actions))
               ELSE [sets EXCEPT ![clsMethods] = MethodsOf(method_actions)]
    /\ clsMethods' = IF clsMethods = 0 THEN Len(sets) + 1 ELSE clsMethods
    /\ views' = Append(views, [method_actions |-> method_actions,
                               methods |-> clsMethods'])
    /\ UNCHANGED <<model, parseVars, response, extVars, storeVars>>

\* TestViewSet.as_view(method_actions): cls.methods becomes a new set, and
\* View.as_view makes a view that refers to it and constructs the class with
\* method_actions on every request
as_view(method_actions) ==
    /\ Len(views) < MaxViews
    /\ sets' = Append(sets, MethodsOf(method_actions))
    /\ clsMethods' = Len(sets) + 1
    /\ views' = Append(views, [method_actions |-> method_actions,
                               methods |-> clsMethods'])
    /\ UNCHANGED <<model, parseVars, response, extVars, storeVars>>

\* a request with this method and these URL arguments reaches
\* dispatch_request of the v-th view
dispatch_request(v, method, kwargs) ==
    /\ v \in 1..Len(views)
    /\ response' =
        [kind |-> "dispatch", view |-> v, method |-> method, kwargs |-> kwargs,
         result |-> Dispatch(views[v].method_actions, method, kwargs)]
    /\ UNCHANGED <<model, parseVars, viewVars, extVars, storeVars>>

NextView ==
    \/ \E method_actions \in MethodActions : as_view(method_actions)
    \/ \E v \in 1..MaxViews, method \in Methods, kwargs \in UrlKwargs :
          dispatch_request(v, method, kwargs)
SpecView == Init /\ [][NextView]_vars

(***************************************************************************)
(* The extension on its applications.                                      *)
(***************************************************************************)
\* the configs an application or a constructor call may carry
Configs == {EmptyConfig, Config(IntV(1)), Config(IntV(2))}
AppConfigs == {NoViewsetsKey} \cup {ViewsetsKey(c) : c \in {EmptyConfig, Config(IntV(2))}}
\* the limit parameter as a request may carry it
Three == <<"3">>
LimitArgs ==
    {NoArg, Arg(<<>>), Arg(<<"0">>), Arg(<<"1">>), Arg(Three), Arg(<<"a">>),
     Arg(<<"-", "1">>), Arg(<<"1", ".", "5">>)}

\* applications with any VIEWSETS config, before any extension is there
InitExt ==
    /\ ParseIdle /\ ViewIdle /\ StoreIdle
    /\ apps \in [Apps -> {NewApp(c) : c \in AppConfigs}]
    /\ ext = NoExtension
    /\ installed \in {Packages, Packages \ {"marshmallow_sqlalchemy"}, {}}
    /\ lastInit = NoInit

\* db.init_app(app), ma.init_app(app): the extension of an importable
\* package registers itself on the app
RegisterExtension(a, key) ==
    /\ PackageOf[key] \in installed
    /\ ExtensionKey[key] \notin apps[a].extensions
    /\ apps' = [apps EXCEPT ![a].extensions = @ \cup {ExtensionKey[key]}]
    /\ UNCHANGED <<model, parseVars, viewVars, response, ext, installed,
                   lastInit, storeVars>>

\* ViewSets(app, config=given): a is 0 when no app is passed
ViewSets_init(a, given) ==
    /\ ~ext.constructed
    /\ LET e == [ext EXCEPT !.constructed = TRUE, !.given = given,
                            !.config = OrEmpty(given)]
       IN IF a = 0
          THEN ext' = e /\ UNCHANGED <<apps, lastInit>>
          ELSE LET r == InitApp(e, apps, a, installed)
               IN ext' = r.ext /\ apps' = r.apps /\ lastInit' = r.lastInit
    /\ UNCHANGED <<model, parseVars, viewVars, response, installed, storeVars>>

\* vs.init_app(app)
init_app(a) ==
    /\ ext.constructed
    /\ LET r == InitApp(ext, apps, a, installed)
       IN ext' = r.ext /\ apps' = r.apps /\ lastInit' = r.lastInit
    /\ UNCHANGED <<model, parseVars, viewVars, response, installed, storeVars>>

\* the limit property of a viewset of the generated ModelViewSet class, for
\* a request with this limit parameter
limit(raw) ==
    /\ ext.ModelViewSet # NoneV
    /\ response' = [kind |-> "limit", raw |-> raw,
                    max_limit |-> ext.config.max_limit,
                    value |-> Limit(ArgInt(raw), ext.config.max_limit)]
    /\ UNCHANGED <<model, parseVars, viewVars, extVars, storeVars>>

NextExt ==
    \/ \E a \in Apps, key \in DOMAIN ExtensionKey : RegisterExtension(a, key)
    \/ \E a \in Apps \cup {0}, given \in Configs \cup {NoneV} : ViewSets_init(a, given)
    \/ \E a \in Apps : init_app(a)
    \/ \E raw \in LimitArgs : limit(raw)
SpecExt == InitExt /\ [][NextExt]_vars

(***************************************************************************)
(* Requests to a model viewset of the generated ModelViewSet class.        *)
(***************************************************************************)
\* the orderings, limits and offsets of the requests
OrderBys ==
    {NoArg, Arg(id), Arg(<<"-">> \o id), Arg(array_ \o <<",", "-">> \o id),
     Arg(<<"-">> \o array_ \o <<",">> \o id), Arg(ghost), Arg(id \o <<",">>)}
Limits ==
    {NoArg, Arg(<<"0">>), Arg(<<"1">>), Arg(Three), Arg(<<"a">>), Arg(<<"-", "1">>)}
Offsets == {NoArg, Arg(<<"1">>)}
\* requests that filter, requests that order or page, and the requests for
\* one record
IdAboveZero == Arg(Comparison(id, "gt", IntLit(0)))
Filtering ==
    {Request(<<>>, w, NoArg, NoArg, NoArg) : w \in Wheres}
        \cup {Request(v, w, NoArg, NoArg, NoArg) :
                v \in ViewArgs,
                w \in {NoArg, IdAboveZero,
                       Arg(Comparison(array_, "contains", IntLit(1)))}}
Paging ==
    {Request(<<>>, NoArg, o, NoArg, NoArg) : o \in OrderBys}
        \cup {Request(<<>>, NoArg, o, l, f) :
                o \in {NoArg, Arg(<<"-">> \o id)}, l \in Limits, f \in Offsets}
        \cup {Request(<<>>, IdAboveZero, NoArg, l, NoArg) : l \in Limits}
ForOne ==
    {Request(v, w, NoArg, NoArg, NoArg) :
        v \in ViewArgs,
        w \in {NoArg, IdAboveZero,
               Arg(Comparison(array_, "contains", IntLit(1))),
               Arg(MalformedText("unterminated group", id, "eq", IntLit(1)))}}
NoRequest == Request(<<>>, NoArg, NoArg, NoArg, NoArg)

\* an application set up as in tests/test_flask_model_viewset.py, with any
\* max_limit: both extensions registered, then ViewSets().init_app(app)
InitModel ==
    /\ ParseIdle /\ ViewIdle /\ StoreIdle
    /\ \E config \in {EmptyConfig, Config(IntV(2))} :
        /\ apps = [a \in Apps |->
                     IF a = 1
                     THEN [extensions |-> {"sqlalchemy", "flask-marshmallow", "viewsets"},
                           config |-> IF config = EmptyConfig THEN NoViewsetsKey
                                      ELSE ViewsetsKey(config)]
                     ELSE NewApp(NoViewsetsKey)]
        /\ ext = [constructed |-> TRUE, given |-> NoneV, config |-> config,
                  ViewSet |-> ViewSetClass,
                  ModelViewSet |-> GeneratedModelViewSet(1)]
    /\ installed = Packages
    /\ lastInit = [set |-> TRUE, app |-> 1,
                   extensions |-> {"sqlalchemy", "flask-marshmallow"},
                   before |-> NoneV]

Answer(kind, request, result) ==
    [kind |-> kind, request |-> request, result |-> result, limited |-> FALSE,
     limit |-> NoneV]

\* POST with the record as JSON: load it, add it, commit
create(data) ==
    /\ IF \E row \in db : row[id] = data[id]
       THEN /\ response' = Answer("create", NoRequest,
                                  Raised("IntegrityError", <<"create">>))
            /\ session' = <<"add">>
            /\ UNCHANGED db
       ELSE /\ response' = Answer("create", NoRequest,
                                  Returned(201, RowBody(data), <<"create">>))
            /\ session' = <<"add", "commit">>
            /\ db' = db \cup {data}
    /\ UNCHANGED <<model, parseVars, viewVars, extVars>>

\* GET of the collection
list(request) ==
    /\ \E out \in get_instances(db, request, ext.config) :
          response' = [kind |-> "list", request |-> request,
                       result |-> out.result, limited |-> out.limited,
                       limit |-> out.limit]
    /\ session' = <<>>
    /\ UNCHANGED <<model, parseVars, viewVars, extVars, db>>

\* self.dump(instance), 200, or the response get_instance ended with
Dump(request, got) ==
    /\ response' =
          Answer("retrieve", request,
                 IF got.found = {} THEN got.result
                 ELSE Returned(200, RowBody(CHOOSE row \in got.found : TRUE),
                               <<"retrieve">>))
    /\ session' = got.session
\* GET of one record
retrieve(request) ==
    /\ Dump(request, get_instance(db, request))
    /\ UNCHANGED <<model, parseVars, viewVars, extVars, db>>

\* self.load(json, instance=instance, ...), commit, self.dump(instance), 200
LoadInto(kind, request, items, got) ==
    IF got.found = {}
    THEN /\ response' = Answer(kind, request, got.result)
         /\ session' = got.session
         /\ UNCHANGED db
    ELSE LET instance == CHOOSE row \in got.found : TRUE
             loaded == [instance EXCEPT ![array_] = ListV(items)]
         IN /\ response' = Answer(kind, request,
                                  Returned(200, RowBody(loaded), <<kind>>))
            /\ session' = <<"commit">>
            /\ db' = (db \ {instance}) \cup {loaded}
\* PUT and PATCH with the new array as JSON: load it into the record, commit
Load(kind, request, items) ==
    /\ LoadInto(kind, request, items, get_instance(db, request))
    /\ UNCHANGED <<model, parseVars, viewVars, extVars>>
update(request, items) == Load("update", request, items)
partial_update(request, items) == Load("partial_update", request, items)

\* session.delete(instance), commit, "", 204
Delete(request, got) ==
    IF got.found = {}
    THEN /\ response' = Answer("destroy", request, got.result)
         /\ session' = got.session
         /\ UNCHANGED db
    ELSE /\ response' = Answer("destroy", request,
                               Returned(204, StrV(<<>>), <<"destroy">>))
         /\ session' = <<"delete", "commit">>
         /\ db' = db \ got.found
\* DELETE of one record
destroy(request) ==
    /\ Delete(request, get_instance(db, request))
    /\ UNCHANGED <<model, parseVars, viewVars, extVars>>

NextModel ==
    \/ \E data \in Rows : create(data)
    \/ \E request \in Filtering \cup Paging : list(request)
    \/ \E request \in ForOne : retrieve(request)
    \/ \E request \in ForOne, items \in RowArrays : update(request, items)
    \/ \E request \in ForOne, items \in RowArrays : partial_update(request, items)
    \/ \E request \in ForOne : destroy(request)
SpecModel == InitModel /\ [][NextModel]_vars

(***************************************************************************)
(* Properties.                                                             *)
(***************************************************************************)
Finished(c) == calls[c].status = "done"
One == [text |-> <<"1">>, value |-> IntV(1)]

\* predicates built directly with the host's constructors
EqPred(f, v) == Binary("eq", Column(f), v)
IsNullPred(f) == Binary("is", Column(f), NoneV)
IsNotNullPred(f) == Binary("is_not", Column(f), NoneV)
ClausePred(i) == EqPred(id, IntV(i))

\* xs[1] op xs[2] op ... nested to the left
RECURSIVE FoldLeft(_, _)
FoldLeft(op, xs) ==
    IF Len(xs) = 1 THEN xs[1]
    ELSE ClauseList(op, <<FoldLeft(op, SubSeq(xs, 1, Len(xs) - 1)), xs[Len(xs)]>>)
\* the last clause of the run of "&" that starts at clause i
RECURSIVE SegEnd(_, _)
SegEnd(os, i) == IF i > Len(os) \/ os[i] = "|" THEN i ELSE SegEnd(os, i + 1)
RECURSIVE OrSegments(_, _, _)
OrSegments(ps, os, i) ==
    IF i > Len(ps) THEN <<>>
    ELSE <<FoldLeft("and", SubSeq(ps, i, SegEnd(os, i)))>>
            \o OrSegments(ps, os, SegEnd(os, i) + 1)
\* the clauses ps joined by the operators os, "&" grouped before "|"
Precedence(ps, os) == FoldLeft("or", OrSegments(ps, os, 1))
\* the predicate a joined filter string of shape m stands for
Grouped(m) ==
    LET ps == [i \in 1..m.k |-> ClausePred(i)]
        os == [i \in 1..(m.k - 1) |-> m.ops[i]]
    IN IF m.lo = 0 THEN Precedence(ps, os)
       ELSE Precedence(
                SubSeq(ps, 1, m.lo - 1)
                    \o <<Precedence(SubSeq(ps, m.lo, m.hi), SubSeq(os, m.lo, m.hi - 1))>>
                    \o SubSeq(ps, m.hi + 1, m.k),
                SubSeq(os, 1, m.lo - 1) \o SubSeq(os, m.hi, m.k - 1))

OrThenAnd == <<"i", "d", "=", "1", "|", "i", "d", "=", "2", "&", "i", "d", "=", "3">>
GroupedOr ==
    <<"(", "i", "d", "=", "1", "|", "i", "d", "=", "2", ")", "&", "i", "d", "=", "3">>

\* C1: in a filter string of comparisons joined by "&" and "|", "&" groups
\* tighter than "|" and a parenthesised part is grouped first; in particular
\* id=1|id=2&id=3 is or(id=1, and(id=2, id=3)) and (id=1|id=2)&id=3 is
\* and(or(id=1, id=2), id=3).
C1_AndBindsTighterThanOr ==
    \A c \in Callers :
        Finished(c) =>
            /\ \A m \in JoinedShapes :
                (m.g = 0 /\ calls[c].input = JoinedText(m, 1))
                    => calls[c].result = Grouped(m)
            /\ calls[c].input = OrThenAnd =>
                calls[c].result =
                    ClauseList("or", <<ClausePred(1),
                        ClauseList("and", <<ClausePred(2), ClausePred(3)>>)>>)
            /\ calls[c].input = GroupedOr =>
                calls[c].result =
                    ClauseList("and", <<ClauseList("or", <<ClausePred(1),
                        ClausePred(2)>>), ClausePred(3)>>)
C1_Witness ==
    \E c \in Callers :
        /\ Finished(c)
        /\ calls[c].input = OrThenAnd
        /\ calls[c].result.t = "clauselist" /\ calls[c].result.op = "or"

C3_EqBuildsEquality ==
    \A c \in Callers :
        Finished(c) =>
            \A f \in Fields : \A l \in Literals \ {NullLiteral} :
                calls[c].input = Comparison(f, "eq", l)
                    => calls[c].result = EqPred(f, l.value)
C3_Witness ==
    \E c \in Callers :
        /\ Finished(c)
        /\ calls[c].input = Comparison(array_, "eq", [text |-> <<"2", ".", "5", "0">>,
                                                       value |-> FloatV(25, 1)])
        /\ calls[c].result = EqPred(array_, FloatV(25, 1))

\* the negation of the comparison of a negated filter string
NegatedPred(m) ==
    IF m.lit = NullLiteral THEN IsNotNullPred(m.f)
    ELSE Unary("not", EqPred(m.f, m.lit.value))
\* C4: "!" before a parenthesised comparison negates that comparison and
\* nothing after it; !(f=null) is the IS NOT NULL predicate on f.
C4_NotWrapsTheGroup ==
    \A c \in Callers :
        Finished(c) =>
            \A m \in NegatedShapes :
                (m.paren /\ calls[c].input = NegatedText(m))
                    => calls[c].result =
                        IF m.tail = "" THEN NegatedPred(m)
                        ELSE ClauseList(IF m.tail = "&" THEN "and" ELSE "or",
                                        <<NegatedPred(m), IsNullPred(id)>>)
C4_Witness ==
    \E c \in Callers :
        /\ Finished(c)
        /\ calls[c].input = <<"!", "(", "i", "d", "=", "n", "u", "l", "l", ")">>
        /\ calls[c].result = IsNotNullPred(id)

\* C5: f#v compiles to the contains predicate on f and the value of v, and
\* f@[v1,...,vn] to the in predicate on f and the list of the values v1..vn
\* in the order written, repeated values kept.
C5_ContainsAndIn ==
    \A c \in Callers :
        Finished(c) => \A f \in Fields :
            /\ \A l \in ScalarLiterals :
                calls[c].input = Comparison(f, "contains", l)
                    => calls[c].result = Binary("contains", Column(f), l.value)
            /\ \A l \in ArrayLiterals :
                calls[c].input = Comparison(f, "in_", l)
                    => calls[c].result = Binary("in", Column(f), l.value)
C5_Witness ==
    \E c \in Callers :
        /\ Finished(c)
        /\ calls[c].input = <<"i", "d", "@", "[", "2", ",", "2", "]">>
        /\ calls[c].result = Binary("in", Column(id), ListV(<<IntV(2), IntV(2)>>))

NamingNoField ==
    {Comparison(n, r, l) : n \in Names \ Fields, r \in Rules \ {"in_"},
                           l \in ScalarLiterals \cup {NullLiteral}}
        \cup {Comparison(n, "in_", l) : n \in Names \ Fields, l \in ArrayLiterals}
        \cup {JoinedText(m, 1) : m \in {j \in JoinedShapes : j.g > 0}}
\* C7: a filter string the grammar allows that names a field the model does
\* not have fails with the resolver's error, wherever the name stands.
C7_UnknownFieldRaises ==
    \A c \in Callers :
        (Finished(c) /\ calls[c].input \in NamingNoField)
            => calls[c].result = Raise("AttributeError")

\* C8: a filter string compiled again, after any other calls, gives the
\* result its first compilation gave.
C8_SameStringSameResult ==
    \A c \in Callers :
        (Finished(c) /\ memo.set /\ calls[c].input = memo.input)
            => calls[c].result = memo.result
C8_Witness ==
    \E c \in Callers :
        /\ Finished(c) /\ memo.set /\ calls[c].input = memo.input
        /\ calls[c].result.t = "clauselist"

\* C9: no step of a compile call, successful or failing, changes the model.
C9_ModelUnchanged == [][model' = model]_vars
C9_Witness ==
    \E c \in Callers :
        /\ Finished(c) /\ IsRaise(calls[c].result)
        /\ calls[c].stack # <<>>
        /\ model = TestModel

\* C10: with several calls in flight, each call ends with the result it has
\* when it runs alone.
C10_ConcurrentAsAlone ==
    \A c \in Callers :
        Finished(c) => calls[c].result = Compile(calls[c].input, model)
C10_Witness ==
    \E c, d \in Callers :
        /\ c # d
        /\ Finished(c) /\ ~IsRaise(calls[c].result)
        /\ calls[d].status = "parsing" /\ calls[d].stack # <<>>
        /\ calls[d].input # calls[c].input

\* filter strings whose comparison has something else than a name on its
\* left: value OP field, value OP value, (expression) OP value
LeftNotName ==
    {MalformedText(kind, n, r, l) :
        kind \in {"value first", "value both", "group first"}, n \in Names,
        r \in {"eq", "gt", "contains"}, l \in MalformedLiterals}
\* C11: a comparison's left operand is always a bare name: on the parser's
\* stack an operator lies directly on the name it was written after, and a
\* filter string of the shape value OP field, value OP value or
\* (expression) OP value ends with an error, never with a predicate.
C11_LeftOperandIsName ==
    \A c \in Callers :
        /\ \A i \in 1..Len(calls[c].stack) :
              calls[c].stack[i].k = "op" => (i > 1 /\ calls[c].stack[i - 1].k = "NAME")
        /\ (Finished(c) /\ calls[c].input \in LeftNotName)
              => IsRaise(calls[c].result)
C11_Witness ==
    \E c \in Callers :
        /\ Finished(c)
        /\ calls[c].input = <<"(", "i", "d", "=", "1", ")", "=", "1">>
        /\ calls[c].result = Raise("UnexpectedInput")
        /\ calls[c].stack = <<Expr(EqPred(id, IntV(1)))>>

\* the host's comparison built directly from a field and a value
DirectPred(r, f, v) == Binary(r, Column(f), v)
\* C16: !=, >, >=, <, <= compile to the host's comparison of the field with
\* the decoded value, null included: the null reaches the comparison as it
\* is, where = builds IS NULL.
C16_OrderingOpsPassNullThrough ==
    \A c \in Callers :
        Finished(c) =>
            \A f \in Fields, r \in {"ne", "gt", "ge", "lt", "le"},
               l \in ScalarLiterals \cup {NullLiteral} :
                calls[c].input = Comparison(f, r, l)
                    => /\ calls[c].result = DirectPred(r, f, l.value)
                       /\ calls[c].result \notin {IsNullPred(f), IsNotNullPred(f)}
C16_Witness ==
    \E c \in Callers :
        /\ Finished(c)
        /\ calls[c].input = Comparison(id, "ne", NullLiteral)
        /\ calls[c].result = DirectPred("ne", id, NoneV)
        /\ Compile(Comparison(id, "eq", NullLiteral), model) = IsNullPred(id)

\* what as_view was called with to make the v-th view, as the response of a
\* dispatch names it
Dispatched == response.kind = "dispatch"
MappedAction ==
    LET ma == views[response.view].method_actions
        m == Lower[response.method]
    IN IF m \in DOMAIN ma THEN ma[m]
       ELSE IF m = "head" /\ "get" \in DOMAIN ma THEN ma["get"]
       ELSE ""
\* C12 as stated: the action of the lower-cased method (of get for an
\* unmapped HEAD) is looked up; none gives 405 and no handler runs, an
\* action the class does not define gives RuntimeError, and otherwise the
\* handler runs with the URL arguments and its response is returned.
C12_HandlerAlwaysCalled ==
    Dispatched =>
        LET a == MappedAction
        IN /\ a = "" => response.result = abort(405)
           /\ (a # "" /\ a \notin Handlers \cup {"action_decorators"})
                => response.result = Raised("RuntimeError", <<>>)
           /\ a \in Handlers
                => response.result = RunHandler(a, response.kwargs)
\* C12 amended: as above, but what is called is the attribute found under
\* the action's name after the decorators of action_decorators[action] are
\* applied to it in order: without decorators that is the handler, with them
\* it is what they return, and an attribute that is no function fails with
\* TypeError.
C12_DispatchPicksAction ==
    Dispatched =>
        LET a == MappedAction
        IN /\ a = "" => (response.result = abort(405) /\ response.result.ran = <<>>)
           /\ (a # "" /\ a \notin Handlers \cup {"action_decorators"})
                => response.result = Raised("RuntimeError", <<>>)
           /\ (a \in Handlers /\ a \notin DOMAIN action_decorators)
                => response.result = RunHandler(a, response.kwargs)
           /\ a = "to_be_decorated"
                => response.result = Returned(200, DictV(<<>>), <<>>)
           /\ a = "action_decorators"
                => response.result = Raised("TypeError", <<>>)
C12_Witness ==
    /\ Dispatched
    /\ response.method = "HEAD"
    /\ "head" \notin DOMAIN views[response.view].method_actions
    /\ response.kwargs = Kwargs(1)
    /\ response.result = Returned(200, IdBody(1), <<"retrieve">>)

\* C19: the methods of a view are the keys of the method_actions it was made
\* with, and head when get is a key; no later as_view call changes the
\* methods or the method_actions of a view made before.
C19_ViewKeepsItsMethods ==
    /\ [](\A v \in 1..Len(views) :
            sets[views[v].methods] = MethodsOf(views[v].method_actions))
    /\ [][\A v \in 1..Len(views) :
            /\ views'[v] = views[v]
            /\ sets'[views'[v].methods] = sets[views[v].methods]]_vars
C19_Witness ==
    /\ Len(views) = MaxViews
    /\ views[1].method_actions = [post |-> "create", get |-> "list"]
    /\ sets[views[1].methods] = {"post", "get", "head"}
    /\ views[2].method_actions = [get |-> "to_be_decorated"]
    /\ clsMethods = views[MaxViews].methods
    /\ sets[clsMethods] = {"post", "put"}

\* were the checks of the last init_app call passed as the call began?
WasAvailable ==
    /\ Packages \subseteq installed
    /\ {"sqlalchemy", "flask-marshmallow"} \subseteq lastInit.extensions
\* C15 as stated: after init_app(app) the app holds the extension under
\* viewsets and ViewSet is set; ModelViewSet is the class generated for the
\* app when both extensions were registered on it as the call began and the
\* packages can be imported, and None otherwise.
C15_ModelViewSetElseNone ==
    lastInit.set =>
        /\ "viewsets" \in apps[lastInit.app].extensions
        /\ ext.ViewSet = ViewSetClass
        /\ ext.ModelViewSet =
              IF WasAvailable THEN GeneratedModelViewSet(lastInit.app) ELSE NoneV
\* C15 amended: as above, but when the checks fail init_app returns early and
\* ModelViewSet is what it was before the call: None, or the class an earlier
\* init_app generated for another application.
C15_ModelViewSetWhenAvailable ==
    lastInit.set =>
        /\ "viewsets" \in apps[lastInit.app].extensions
        /\ ext.ViewSet = ViewSetClass
        /\ ext.ModelViewSet =
              IF WasAvailable THEN GeneratedModelViewSet(lastInit.app)
              ELSE lastInit.before
C15_Witness ==
    /\ lastInit.set /\ lastInit.app = 2
    /\ lastInit.extensions = {"sqlalchemy"}
    /\ "flask-marshmallow" \in apps[2].extensions
    /\ ext.ModelViewSet = NoneV
    /\ ext.ViewSet = ViewSetClass

\* C20: after init_app(app) the extension's config is the app's VIEWSETS
\* config, the empty one when the app has none, whatever the constructor was
\* given; the limit property works with that config from then on.
C20_ConfigFromAppOnly ==
    /\ [](lastInit.set =>
            ext.config = IF apps[lastInit.app].config.present
                         THEN apps[lastInit.app].config.value ELSE EmptyConfig)
    /\ [][(lastInit.set /\ response' # response /\ response'.kind = "limit")
            => response'.value =
                 LET max_limit == IF apps[lastInit.app].config.present
                                  THEN apps[lastInit.app].config.value.max_limit
                                  ELSE NoneV
                     asked == ArgInt(response'.raw)
                 IN IF max_limit = NoneV THEN asked
                    ELSE IF asked = NoneV \/ asked = IntV(0) THEN max_limit
                    ELSE IF asked.n <= max_limit.n THEN asked ELSE max_limit]_vars
C20_Witness ==
    /\ ext.given = Config(IntV(1))
    /\ lastInit.set /\ ~apps[lastInit.app].config.present
    /\ ext.config = EmptyConfig
    /\ response.kind = "limit" /\ response.raw = Arg(Three)
    /\ response.value = IntV(3)

\* What the filters of the requests ask of a record, read off their text.
Asks(where, row) ==
    CASE ~where.present \/ where.text = <<>> -> TRUE
      [] where.text = Comparison(id, "eq", IntLit(1)) -> row[id].n = 1
      [] where.text = Comparison(id, "gt", IntLit(0)) -> row[id].n > 0
      [] where.text = Comparison(id, "eq", NullLiteral) -> row[id] = NoneV
      [] where.text = NegatedText([f |-> id, lit |-> NullLiteral, paren |-> TRUE,
                                   tail |-> ""]) -> row[id] # NoneV
      [] where.text = Comparison(id, "eq", IntLit(0)) \o <<"|">>
                        \o Comparison(id, "eq", IntLit(2)) -> row[id].n \in {0, 2}
      [] where.text = Comparison(array_, "contains", IntLit(1)) ->
           \E i \in DOMAIN row[array_].items : row[array_].items[i] = IntV(1)
      [] OTHER -> FALSE
\* the filters that are well-formed and name an attribute of the model; the
\* table's name is a string that equals no integer
Askable ==
    {NoArg, Arg(<<>>),
     Arg(Comparison(id, "eq", IntLit(1))),
     Arg(Comparison(id, "gt", IntLit(0))),
     Arg(Comparison(id, "eq", NullLiteral)),
     Arg(NegatedText([f |-> id, lit |-> NullLiteral, paren |-> TRUE, tail |-> ""])),
     Arg(Comparison(id, "eq", IntLit(0)) \o <<"|">> \o Comparison(id, "eq", IntLit(2))),
     Arg(Comparison(array_, "contains", IntLit(1))),
     Arg(Comparison(tablename, "eq", IntLit(1)))}
\* the record satisfies every view-argument equality and the filter
Wanted(request, row) ==
    /\ \A i \in DOMAIN request.view_args :
          /\ request.view_args[i][1] \in Fields
          /\ row[request.view_args[i][1]] = request.view_args[i][2]
    /\ Asks(request.where, row)
Items(seq) == {seq[i] : i \in DOMAIN seq}
Listed == response.kind = "list" /\ response.result.status = 200
Unpaged(request) ==
    /\ ~request.limit.present /\ ~request.offset.present
    /\ ext.config.max_limit = NoneV

\* C13 as stated (refuted): the list action returns exactly the stored
\* records that satisfy every view-argument equality and the where filter,
\* whatever else the request carries.
C13_ListReturnsEveryMatch ==
    Listed =>
        /\ response.request.where \in Askable
        /\ Items(response.result.body.items)
              = {row \in db : Wanted(response.request, row)}
\* C13 (amended): when no limit or offset is requested and no max_limit is
\* configured, the list action returns exactly the stored records that
\* satisfy every view-argument equality and the where filter, each once; all
\* records when the request has neither.  Otherwise what it returns is a
\* part of them.
C13_ListReturnsMatchWhenUnpaged ==
    Listed =>
        LET items == response.result.body.items
            wanted == {row \in db : Wanted(response.request, row)}
        IN /\ response.request.where \in Askable
           /\ Items(items) \subseteq wanted
           /\ Len(items) = Cardinality(Items(items))
           /\ Unpaged(response.request) => Items(items) = wanted
C13_Witness ==
    /\ Listed /\ Unpaged(response.request)
    /\ response.request.view_args # <<>>
    /\ response.request.where.present /\ response.request.where.text # <<>>
    /\ response.result.body.items # <<>>
    /\ Items(response.result.body.items) # db
    /\ \E row \in db : /\ Asks(response.request.where, row)
                       /\ row \notin Items(response.result.body.items)

\* the place of a record's array among the arrays of the records
ArrayRank(row) == Len(row[array_].items)
\* C14: order_by is a comma-separated list of sort keys applied in their
\* written order, "-" marking a descending one: "-id" lists by id descending,
\* "id" ascending, "array,-id" by array and then id descending, "-array,id"
\* by array descending and then id.
C14_OrderByKeysInOrder ==
    Listed =>
        LET items == response.result.body.items
            text == response.request.order_by.text
        IN \A i, j \in DOMAIN items :
              i < j =>
                LET a == items[i]
                    b == items[j]
                IN /\ text = <<"-">> \o id => a[id].n > b[id].n
                   /\ text = id => a[id].n < b[id].n
                   /\ text = array_ \o <<",", "-">> \o id =>
                        \/ ArrayRank(a) < ArrayRank(b)
                        \/ ArrayRank(a) = ArrayRank(b) /\ a[id].n > b[id].n
                   /\ text = <<"-">> \o array_ \o <<",">> \o id =>
                        \/ ArrayRank(a) > ArrayRank(b)
                        \/ ArrayRank(a) = ArrayRank(b) /\ a[id].n < b[id].n
C14_Witness ==
    /\ Listed
    /\ response.request.order_by.text = array_ \o <<",", "-">> \o id
    /\ Len(response.result.body.items) = 2
    /\ ArrayRank(response.result.body.items[1])
          = ArrayRank(response.result.body.items[2])
    /\ response.result.body.items[1][id].n > response.result.body.items[2][id].n

\* the integer a limit parameter asks for, read off its text
RequestedLimit(raw) ==
    CASE raw = Arg(<<"0">>) -> IntV(0)
      [] raw = Arg(<<"1">>) -> IntV(1)
      [] raw = Arg(Three) -> IntV(3)
      [] raw = Arg(<<"-", "1">>) -> IntV(0 - 1)
      [] OTHER -> NoneV
ForOneKinds == {"retrieve", "update", "partial_update", "destroy"}
====
